---- MODULE Spec2Model ----
(***************************************************************************)
(* raft-chat: the newline-delimited JSON message channel                    *)
(* (shared/src/channel.rs), the per-connection server handler              *)
(* (server/src/main.rs) and the client event loop with its UI and shutdown *)
(* signal (client/src/main.rs, client/src/ui.rs).                          *)
(*                                                                         *)
(* A byte stream is a sequence of tokens.  A token is one JSON lexeme or   *)
(* one character of a string: the line feed LF, the double quote DQ, the   *)
(* backslash BS, the structural tokens of the derived serde encoding, one  *)
(* digit for a timestamp, and the characters of strings.  Strings are      *)
(* sequences of characters; a word such as "join" is one character.        *)
(***************************************************************************)
EXTENDS Integers, Sequences, FiniteSets, TLC

\* ------------------------------------------------------------------ bounds
MaxLines == 2
MaxPeerWrites == 2
MaxPipeWrites == 3
MaxCalls == 2
MaxSends == 2
MaxBurst == 129

\* ------------------------------------------------------- program constants
MsgQueueCap == 100
UserQueueCap == 100
MAX_MESSAGES == 1000

\* ------------------------------------------------------------------ tokens
LF == "\n"
DQ == "\""
BS == "\\"

Structural ==
  { "{SendMessage:", "{Join:", "{Leave:",
    "{MessageReceived:", "{Joined:", "{Left:", "{Error:",
    "{sender:", ",content:", ",timestamp:", "}" }

Digit == <<"0", "1", "2", "3", "4", "5", "6", "7", "8", "9">>

Take(s, n) == SubSeq(s, 1, n)
Drop(s, n) == SubSeq(s, n + 1, Len(s))

IsPrefix(s, t) == Len(s) <= Len(t) /\ Take(t, Len(s)) = s

\* ------------------------------------------------------------------ values
Message(sender, content, timestamp) ==
  [sender |-> sender, content |-> content, timestamp |-> timestamp]

SendMessage(m) == [tag |-> "SendMessage", msg |-> m]
Join(room) == [tag |-> "Join", arg |-> room]
Leave(room) == [tag |-> "Leave", arg |-> room]

MessageReceived(m) == [tag |-> "MessageReceived", msg |-> m]
Joined(user) == [tag |-> "Joined", arg |-> user]
Left(user) == [tag |-> "Left", arg |-> user]
Error(reason) == [tag |-> "Error", arg |-> reason]

CommandTags == {"SendMessage", "Join", "Leave"}
ResponseTags == {"MessageReceived", "Joined", "Left", "Error"}
MessageTags == {"SendMessage", "MessageReceived"}

\* ChatResult<T>: Ok(value), or Err(ChatError) with the error's kind and text.
Ok(v) == [ok |-> TRUE, val |-> v]
Err(kind, text) == [err |-> kind, ok |-> FALSE, text |-> text]

\* ------------------------------------------------------------- wire codec
\* Faulty variant of EscapeChar: the line feed is written as it is.
EscapeCharKeepsLF(ch) ==
  IF ch = DQ THEN <<BS, DQ>>
  ELSE IF ch = BS THEN <<BS, BS>>
  ELSE <<ch>>

\* serde_json::to_vec of a String: quoted, with line feed, quote and backslash
\* escaped.
EscapeChar(ch) ==
  IF ch = LF THEN <<BS, "n">>
  ELSE IF ch = DQ THEN <<BS, DQ>>
  ELSE IF ch = BS THEN <<BS, BS>>
  ELSE <<ch>>

RECURSIVE EscapeChars(_)
EscapeChars(s) ==
  IF s = <<>> THEN <<>> ELSE EscapeChar(Head(s)) \o EscapeChars(Tail(s))

EncodeString(s) == <<DQ>> \o EscapeChars(s) \o <<DQ>>

EncodeMessage(m) ==
  <<"{sender:">> \o EncodeString(m.sender)
    \o <<",content:">> \o EncodeString(m.content)
    \o <<",timestamp:", Digit[m.timestamp + 1], "}">>

\* serde_json::to_vec of the externally tagged enums ChatCommand / ChatResponse.
EncodeValue(v) ==
  <<"{" \o v.tag \o ":">>
    \o (IF v.tag \in MessageTags THEN EncodeMessage(v.msg) ELSE EncodeString(v.arg))
    \o <<"}">>

ParseFail == [ok |-> FALSE, val |-> <<>>, next |-> 0]

RECURSIVE ParseChars(_, _, _)
ParseChars(toks, i, acc) ==
  IF i > Len(toks) THEN ParseFail
  ELSE IF toks[i] = DQ THEN [ok |-> TRUE, val |-> acc, next |-> i + 1]
  ELSE IF toks[i] = BS THEN
    IF i + 1 > Len(toks) THEN ParseFail
    ELSE IF toks[i + 1] = "n" THEN ParseChars(toks, i + 2, Append(acc, LF))
    ELSE IF toks[i + 1] \in {DQ, BS} THEN ParseChars(toks, i + 2, Append(acc, toks[i + 1]))
    ELSE ParseFail
  ELSE IF toks[i] \in Structural \cup {LF} THEN ParseFail
  ELSE ParseChars(toks, i + 1, Append(acc, toks[i]))

ParseString(toks, i) ==
  IF i <= Len(toks) /\ toks[i] = DQ THEN ParseChars(toks, i + 1, <<>>) ELSE ParseFail

ParseNumber(toks, i) ==
  IF i <= Len(toks) /\ \E d \in 1..Len(Digit) : Digit[d] = toks[i]
  THEN [ok |-> TRUE, val |-> (CHOOSE d \in 1..Len(Digit) : Digit[d] = toks[i]) - 1,
        next |-> i + 1]
  ELSE [ok |-> FALSE, val |-> 0, next |-> 0]

Expect(toks, i, tok) == i >= 1 /\ i <= Len(toks) /\ toks[i] = tok

ParseMessage(toks, i) ==
  IF ~Expect(toks, i, "{sender:") THEN ParseFail
  ELSE LET s == ParseString(toks, i + 1) IN
    IF ~(s.ok /\ Expect(toks, s.next, ",content:")) THEN ParseFail
    ELSE LET c == ParseString(toks, s.next + 1) IN
      IF ~(c.ok /\ Expect(toks, c.next, ",timestamp:")) THEN ParseFail
      ELSE LET t == ParseNumber(toks, c.next + 1) IN
        IF ~(t.ok /\ Expect(toks, t.next, "}")) THEN ParseFail
        ELSE [ok |-> TRUE, val |-> Message(s.val, c.val, t.val), next |-> t.next + 1]

\* serde_json skips white space around the value: the frame's trailing line feed.
TrimWs(buf) ==
  IF buf # <<>> /\ buf[Len(buf)] = LF THEN Take(buf, Len(buf) - 1) ELSE buf

\* serde_json::from_slice::<T>(&buffer) for the enum whose variants are `tags`:
\* the decoded value, or Err when the bytes are not exactly one value of T.
Decode(buf, tags) ==
  LET toks == TrimWs(buf) IN
  IF toks = <<>> THEN ParseFail
  ELSE IF \E t \in tags \cap MessageTags : toks[1] = "{" \o t \o ":" THEN
    LET t == CHOOSE t \in tags \cap MessageTags : toks[1] = "{" \o t \o ":"
        m == ParseMessage(toks, 2)
    IN IF m.ok /\ Expect(toks, m.next, "}") /\ m.next = Len(toks)
       THEN [ok |-> TRUE, val |-> [tag |-> t, msg |-> m.val], next |-> m.next + 1]
       ELSE ParseFail
  ELSE IF \E t \in tags \ MessageTags : toks[1] = "{" \o t \o ":" THEN
    LET t == CHOOSE t \in tags \ MessageTags : toks[1] = "{" \o t \o ":"
        s == ParseString(toks, 2)
    IN IF s.ok /\ Expect(toks, s.next, "}") /\ s.next = Len(toks)
       THEN [ok |-> TRUE, val |-> [tag |-> t, arg |-> s.val], next |-> s.next + 1]
       ELSE ParseFail
  ELSE ParseFail

DecodeCommand(buf) == Decode(buf, CommandTags)

\* ---------------------------------------------------------------- framing
HasLF(bytes) == \E i \in 1..Len(bytes) : bytes[i] = LF

FirstLF(bytes) == CHOOSE i \in 1..Len(bytes) : bytes[i] = LF /\ \A j \in 1..(i - 1) : bytes[j] # LF

\* A read_until(b'\n', ..) call can complete once the stream holds a delimiter
\* or has reached end of file.
FrameReady(bytes, eof) == HasLF(bytes) \/ eof

\* Faulty variant of Consume: the reader forgets the bytes it buffered past the frame.
ConsumeBuffered(bytes, n) == <<>>

\* The bytes the stream has left after a completed read_until.
Consume(bytes, n) == Drop(bytes, n)

\* AsyncBufReadExt::read_until(b'\n', &mut buffer), run to completion: the bytes
\* up to and including the first delimiter, or everything up to end of file.
ReadUntil(bytes) ==
  LET n == IF HasLF(bytes) THEN FirstLF(bytes) ELSE Len(bytes)
  IN [buf |-> Take(bytes, n), rest |-> Consume(bytes, n)]

\* The frames of a stream: each ends with its delimiter, but for an undelimited tail.
RECURSIVE Frames(_)
Frames(bytes) ==
  IF bytes = <<>> THEN <<>>
  ELSE IF ~HasLF(bytes) THEN <<bytes>>
  ELSE <<Take(bytes, FirstLF(bytes))>> \o Frames(Drop(bytes, FirstLF(bytes)))

\* ChatClientChannel::send_bytes: the bytes handed to write_all.
SendBytes(data) ==
  IF data # <<>> /\ data[Len(data)] = LF THEN data ELSE Append(data, LF)

\* ChatClientChannel::receive_event / receive_command on the `buffer` a
\* completed read_until filled.
ReceiveResult(buffer, tags) ==
  IF Len(buffer) > 0
  THEN LET d == Decode(buffer, tags) IN
       IF d.ok THEN Ok(d.val) ELSE Err("Protocol", "failed to parse")
  ELSE Err("Network", "connection closed")

IsNetworkError(res) == IF res.ok THEN FALSE ELSE res.err = "Network"
IsProtocolError(res) == IF res.ok THEN FALSE ELSE res.err = "Protocol"

ReceiveEvent(buffer) == ReceiveResult(buffer, ResponseTags)
ReceiveCommand(buffer) == ReceiveResult(buffer, CommandTags)

\* ----------------------------------------------------------------- state
Conns == {"a", "b"}

VARIABLES
  csock,      \* [Conns -> "none" | "open" | "closed"]: the client end's socket
  hstate,     \* [Conns -> "none" | "pending" | "open" | "closed" | "panicked" |
              \* "refused"]: the server's handler task of the connection
  c2s,        \* [Conns -> bytes]: written by the client end, not yet read
  s2c,        \* [Conns -> bytes]: written by the handler, not yet read
  c2sHist,    \* [Conns -> bytes]: every byte the client end has written
  hlog,       \* [Conns -> Seq]: one entry per read_until the handler completed
  crecv,      \* [Conns -> Seq]: the results receive_event returned to the client end
  clock,      \* the wall clock (epoch millis)
  writes,     \* number of frames and chunks the peers have written
  listener    \* "accepting" | "stopped": main's accept loop

netvars == <<csock, hstate, c2s, s2c, c2sHist, hlog, crecv, clock, writes, listener>>

ServerClosed(c) == hstate[c] \in {"closed", "panicked", "refused"}
ClientClosed(c) == csock[c] = "closed"

\* ---------------------------------------------------------------- server
\* main's accept loop: Ok((socket, addr)) => tokio::spawn(handle_connection).
Accept(c) ==
  /\ listener = "accepting"
  /\ hstate[c] = "pending"
  /\ hstate' = [hstate EXCEPT ![c] = "open"]
  /\ UNCHANGED <<csock, c2s, s2c, c2sHist, hlog, crecv, clock, writes, listener>>

\* Faulty variant of AcceptOutcome: the error ends the accept loop.
AcceptOutcomeFatal(result) == IF result = "Err" THEN "stopped" ELSE "accepting"

\* The accept loop after listener.accept() returned `result`: both arms of the
\* match fall through to the next iteration.
AcceptOutcome(result) == "accepting"

\* main's accept loop: Err(e) => error!(..), and the loop goes on. The
\* connection that failed to be accepted gets no handler. (An accept error that
\* leaves the connection queued changes nothing.)
AcceptError(c) ==
  /\ listener = "accepting"
  /\ hstate[c] = "pending"
  /\ hstate' = [hstate EXCEPT ![c] = "refused"]
  /\ c2s' = [c2s EXCEPT ![c] = <<>>]
  /\ listener' = AcceptOutcome("Err")
  /\ UNCHANGED <<csock, s2c, c2sHist, hlog, crecv, clock, writes>>

\* Faulty variant of Reaction: the handler stamps the echoed message anew.
ReactionRestamped(d) ==
  IF d.ok /\ d.val.tag = "SendMessage"
  THEN <<MessageReceived([d.val.msg EXCEPT !.timestamp = 0])>>
  ELSE <<>>

\* handle_connection's match on the decoded frame: the responses it writes.
Reaction(d) ==
  IF d.ok /\ d.val.tag = "SendMessage" THEN <<MessageReceived(d.val.msg)>> ELSE <<>>

\* serde_json::to_vec(&response) followed by response_bytes.push(b'\n').
ResponseBytes(response) == Append(EncodeValue(response), LF)

\* Faulty variant of WriteResponse: the response overtakes the responses in flight.
WriteResponseFirst(wires, c, bytes) == [wires EXCEPT ![c] = bytes \o @]

\* Faulty variant of WriteResponse: the response is written to every connection.
WriteResponseToAll(wires, c, bytes) == [k \in DOMAIN wires |-> wires[k] \o bytes]

\* reader.get_mut().write_all(&response_bytes) on the handler's own socket.
WriteResponse(wires, c, bytes) == [wires EXCEPT ![c] = @ \o bytes]

\* Faulty variant of HandlerRuns: the loop goes on after its break.
HandlerRunsAfterBreak(state) == state \in {"open", "closed"}

\* handle_connection is in its loop: the task was spawned and has not left the
\* loop by a break (or by a panic).
HandlerRuns(state) == state = "open"

\* The handler's pending read_until can complete: a delimiter or the end of
\* the stream has arrived.
HandlerCanStep(c) == HandlerRuns(hstate[c]) /\ FrameReady(c2s[c], ClientClosed(c))

\* One iteration of handle_connection's loop: read_until, decode, react.
HandlerStep(c) ==
  /\ HandlerCanStep(c)
  /\ LET r == ReadUntil(c2s[c])
         d == DecodeCommand(r.buf)
         out == IF Len(r.buf) > 0 THEN Reaction(d) ELSE <<>>
     IN /\ c2s' = [c2s EXCEPT ![c] = r.rest]
        /\ \E wrote \in (IF out = <<>> THEN {"none"}
                         ELSE IF ClientClosed(c) THEN {"ok", "failed"} ELSE {"ok"}) :
             /\ hlog' = [hlog EXCEPT ![c] =
                           Append(@, [buf |-> r.buf, cmd |-> d, out |-> out, wrote |-> wrote])]
             /\ s2c' = IF wrote = "ok" THEN WriteResponse(s2c, c, ResponseBytes(out[1])) ELSE s2c
             /\ hstate' = [hstate EXCEPT ![c] =
                             IF Len(r.buf) = 0 THEN "closed"
                             ELSE IF wrote = "failed" THEN "panicked"
                             ELSE "open"]
  /\ UNCHANGED <<csock, c2sHist, crecv, clock, writes, listener>>

\* read_until returns Err(e) (the connection is reset or times out): the handler
\* logs and breaks.
HandlerReadError(c) ==
  /\ HandlerRuns(hstate[c])
  /\ hstate' = [hstate EXCEPT ![c] = "closed"]
  /\ c2s' = [c2s EXCEPT ![c] = <<>>]
  /\ UNCHANGED <<csock, s2c, c2sHist, hlog, crecv, clock, writes, listener>>

\* ----------------------------------------------------------------- peers
\* A peer is a process at the client end of a connection that drives a
\* ChatClientChannel (connect, send_message, receive_event, drop), or writes
\* to the socket directly.
PeerTexts == {<<"hi">>}

RawConns == {"b"}

RawChunks ==
  { <<"x", LF>>,
    <<"x">>,
    Append(EncodeValue(Join(<<"r">>)), LF),
    EncodeValue(SendMessage(Message(<<"raw">>, <<"yo">>, 0))) }

\* ChatClientChannel::connect: the handshake completes in the listener's backlog.
Connect(c) ==
  /\ csock[c] = "none"
  /\ csock' = [csock EXCEPT ![c] = "open"]
  /\ hstate' = [hstate EXCEPT ![c] = "pending"]
  /\ UNCHANGED <<c2s, s2c, c2sHist, hlog, crecv, clock, writes, listener>>

\* writer.write_all(data) on connection c: the streams after a successful write.
\* Bytes written to a connection the handler has released are read by nobody.
WriteAll(c, data) ==
  /\ c2s' = [c2s EXCEPT ![c] = IF ServerClosed(c) THEN @ ELSE @ \o data]
  /\ c2sHist' = [c2sHist EXCEPT ![c] = @ \o data]

\* write_all can fail once the other end has closed the connection.
WriteOutcomes(c) == IF ServerClosed(c) THEN {"ok", "failed"} ELSE {"ok"}

\* SystemTime::now() read by a send: a later time than the send before read
\* (two sends within one millisecond are not modelled). A timestamp is one digit.
Now == {t \in {clock + 1} : t < Len(Digit)}

\* ChatClientChannel::send_message(msg_body).
PeerSendMessage(c, text) ==
  /\ csock[c] = "open"
  /\ writes < MaxPeerWrites
  /\ writes' = writes + 1
  /\ \E now \in Now, wrote \in WriteOutcomes(c) :
       LET msg == SendMessage(Message(<<"client">>, text, now))
           msg_bytes == EncodeValue(msg)
       IN /\ clock' = now
          /\ IF wrote = "ok" THEN WriteAll(c, SendBytes(msg_bytes))
             ELSE UNCHANGED <<c2s, c2sHist>>
  /\ UNCHANGED <<csock, hstate, s2c, hlog, crecv, listener>>

\* A write of bytes to the socket that does not go through the channel.
PeerWriteRaw(c, chunk) ==
  /\ c \in RawConns
  /\ csock[c] = "open"
  /\ ~ServerClosed(c)
  /\ writes < MaxPeerWrites
  /\ writes' = writes + 1
  /\ WriteAll(c, chunk)
  /\ UNCHANGED <<csock, hstate, s2c, hlog, crecv, clock, listener>>

\* ChatClientChannel::receive_event, run to completion. A peer stops receiving
\* at the first error, as run_event_loop does.
PeerReceive(c) ==
  /\ csock[c] = "open"
  /\ \A i \in 1..Len(crecv[c]) : crecv[c][i].ok
  /\ FrameReady(s2c[c], ServerClosed(c))
  /\ LET r == ReadUntil(s2c[c]) IN
       /\ s2c' = [s2c EXCEPT ![c] = r.rest]
       /\ crecv' = [crecv EXCEPT ![c] = Append(@, ReceiveEvent(r.buf))]
  /\ UNCHANGED <<csock, hstate, c2s, c2sHist, hlog, clock, writes, listener>>

\* The channel is dropped: both halves of the socket close.
PeerClose(c) ==
  /\ csock[c] = "open"
  /\ csock' = [csock EXCEPT ![c] = "closed"]
  /\ s2c' = [s2c EXCEPT ![c] = <<>>]
  /\ UNCHANGED <<hstate, c2s, c2sHist, hlog, crecv, clock, writes, listener>>

\* ---------------------------------------------------------------- client
\* The connection of the chat client (client/src/main.rs).
CC == "a"

VARIABLES
  main,         \* "init" | "select" | "exit": where main is
  loop,         \* "idle" | "running" | "stopped" | "cancelled": the run_event_loop task
  partial,      \* bytes the pending receive_event future has read into its buffer
  userQ,        \* lines in the broadcast channel, unread by the loop's receiver
  msgQ,         \* UIMessages in the mpsc channel, unread by the UI
  ui,           \* "idle" | "poll" | "check" | "exited": where ChatUI::run is
  messages,     \* ChatUI.messages
  shutdown_tx,  \* "Some" | "None": the Option behind the shared mutex
  shutdown_rx,  \* "empty" | "sent": the oneshot channel
  sdlog,        \* results of the shutdown() calls, in order
  typed,        \* number of lines the user has entered
  handled,      \* the user lines handle_user_message was called with
  lagged        \* the loop's broadcast receiver has missed lines

clientvars == <<main, loop, partial, userQ, msgQ, ui, messages,
                shutdown_tx, shutdown_rx, sdlog, typed, handled, lagged>>

UserLines ==
  { <<"hi">>, <<"/", "join", " ", "r">>, <<"/", "quit">>, <<"/", "x">> }

\* impl Display for ChatError.
Display(e) == e.err \o " error: " \o e.text

\* ChatUI's receiver lives until run returns and the closure holding the UI ends.
UIAlive == ui # "exited"

\* UIController::send_message: the mpsc channel after the send (a send to a
\* dropped receiver fails, and every caller ignores the failure).
UISend(q, content) == IF UIAlive THEN Append(q, content) ELSE q

\* The send suspends while the channel is full and its receiver alive.
CanUISend == ~UIAlive \/ Len(msgQ) < MsgQueueCap

\* Faulty variant of HandleServerEvent: the loop goes on after Error(reason).
HandleServerEventLenient(event) ==
  IF event.tag = "MessageReceived" THEN [notes |-> <<event.msg.content>>, continue |-> TRUE]
  ELSE IF event.tag = "Joined"
    THEN [notes |-> << <<"User ">> \o event.arg \o <<" joined the chat">> >>, continue |-> TRUE]
  ELSE IF event.tag = "Left"
    THEN [notes |-> << <<"User ">> \o event.arg \o <<" left the chat">> >>, continue |-> TRUE]
  ELSE [notes |-> <<>>, continue |-> TRUE]

\* Faulty variant of HandleServerEvent: Left(user) is not forwarded to the UI.
HandleServerEventSilentLeft(event) ==
  IF event.tag = "MessageReceived" THEN [notes |-> <<event.msg.content>>, continue |-> TRUE]
  ELSE IF event.tag = "Joined"
    THEN [notes |-> << <<"User ">> \o event.arg \o <<" joined the chat">> >>, continue |-> TRUE]
  ELSE IF event.tag = "Left" THEN [notes |-> <<>>, continue |-> TRUE]
  ELSE [notes |-> <<>>, continue |-> FALSE]

\* handle_server_event: the UIMessage contents it sends and whether the loop
\* continues.
HandleServerEvent(event) ==
  IF event.tag = "MessageReceived" THEN [notes |-> <<event.msg.content>>, continue |-> TRUE]
  ELSE IF event.tag = "Joined"
    THEN [notes |-> << <<"User ">> \o event.arg \o <<" joined the chat">> >>, continue |-> TRUE]
  ELSE IF event.tag = "Left"
    THEN [notes |-> << <<"User ">> \o event.arg \o <<" left the chat">> >>, continue |-> TRUE]
  ELSE [notes |-> <<>>, continue |-> FALSE]

\* message[1..].splitn(2, ' '): the command and the argument string.
SplitCommand(message) ==
  LET rest == Tail(message)
      sp == {i \in 1..Len(rest) : rest[i] = " "}
  IN IF sp = {} THEN [command |-> rest, args |-> <<>>]
     ELSE LET i == CHOOSE i \in sp : \A j \in sp : i <= j
          IN [command |-> Take(rest, i - 1), args |-> Drop(rest, i)]

\* Faulty variant of UserRequest: an unknown sub-command ends the loop as quit does.
UserRequestUnknownQuits(message) ==
  IF message # <<>> /\ Head(message) = "/" THEN
    LET p == SplitCommand(message) IN
    IF p.command = <<"join">> THEN [kind |-> "join", arg |-> p.args]
    ELSE IF p.command = <<"leave">> THEN [kind |-> "leave", arg |-> p.args]
    ELSE [kind |-> "quit", arg |-> <<>>]
  ELSE [kind |-> "message", arg |-> message]

\* handle_user_message up to its send: the branch the line takes, with the
\* string the branch uses (the argument, the unknown command, the message).
UserRequest(message) ==
  IF message # <<>> /\ Head(message) = "/" THEN
    LET p == SplitCommand(message) IN
    IF p.command = <<"join">> THEN [kind |-> "join", arg |-> p.args]
    ELSE IF p.command = <<"leave">> THEN [kind |-> "leave", arg |-> p.args]
    ELSE IF p.command = <<"quit">> THEN [kind |-> "quit", arg |-> <<>>]
    ELSE [kind |-> "unknown", arg |-> p.command]
  ELSE [kind |-> "message", arg |-> message]

\* The ChatCommand handle_user_message writes for a request; send_message
\* stamps the message with the fixed sender and the time `now`.
RequestCommand(req, now) ==
  IF req.kind = "join" THEN Join(req.arg)
  ELSE IF req.kind = "leave" THEN Leave(req.arg)
  ELSE SendMessage(Message(<<"client">>, req.arg, now))

\* ChatClientChannel::send_command(cmd): the bytes handed to send_bytes.
SendCommandBytes(cmd) == EncodeValue(cmd)

\* The notice handle_user_message sends when its write fails.
SendFailureNote(req, e) ==
  IF req.kind = "message" THEN <<"Error sending message: ", Display(e)>>
  ELSE IF req.kind = "join" THEN <<"Error joining: ", Display(e)>>
  ELSE <<"Error leaving: ", Display(e)>>

\* client_state is dropped when run_event_loop ends: the socket closes.
DropChannel ==
  /\ csock' = [csock EXCEPT ![CC] = "closed"]
  /\ s2c' = [s2c EXCEPT ![CC] = <<>>]

\* main up to its select!: connect, ChatUI::new, spawn the loop and the UI.
MainStart ==
  /\ main = "init"
  /\ main' = "select"
  /\ csock' = [csock EXCEPT ![CC] = "open"]
  /\ hstate' = [hstate EXCEPT ![CC] = "pending"]
  /\ loop' = "running"
  /\ ui' = "poll"
  /\ UNCHANGED <<c2s, s2c, c2sHist, hlog, crecv, clock, writes, listener>>
  /\ UNCHANGED <<partial, userQ, msgQ, messages, shutdown_tx, shutdown_rx, sdlog, typed, handled, lagged>>

\* ChatClientChannel::connect fails: main returns the error.
MainConnectFails ==
  /\ main = "init"
  /\ main' = "exit"
  /\ UNCHANGED netvars
  /\ UNCHANGED <<loop, partial, userQ, msgQ, ui, messages, shutdown_tx, shutdown_rx,
                 sdlog, typed, handled, lagged>>

\* The polls of the pending receive_event future that find bytes but no
\* delimiter: read_until moves them into the future's buffer and suspends.
\* (The polls of one future are one step: they read k bytes in all.)
LoopPollReceive ==
  /\ loop = "running"
  /\ partial = <<>>
  /\ \E k \in 1..Len(s2c[CC]) :
       /\ ~HasLF(Take(s2c[CC], k))
       /\ partial' = partial \o Take(s2c[CC], k)
       /\ s2c' = [s2c EXCEPT ![CC] = Drop(@, k)]
  /\ UNCHANGED <<csock, hstate, c2s, c2sHist, hlog, crecv, clock, writes, listener>>
  /\ UNCHANGED <<main, loop, userQ, msgQ, ui, messages, shutdown_tx, shutdown_rx,
                 sdlog, typed, handled, lagged>>

\* select! takes the receive_event branch: handle_server_event, or the error arm.
LoopReceive ==
  /\ loop = "running"
  /\ FrameReady(s2c[CC], ServerClosed(CC))
  /\ CanUISend
  /\ LET r == ReadUntil(s2c[CC])
         result == ReceiveEvent(partial \o r.buf)
         h == IF result.ok THEN HandleServerEvent(result.val)
              ELSE [notes |-> << <<"Connection error: ", Display(result)>> >>,
                    continue |-> FALSE]
     IN /\ crecv' = [crecv EXCEPT ![CC] = Append(@, result)]
        /\ partial' = <<>>
        /\ msgQ' = IF h.notes = <<>> THEN msgQ ELSE UISend(msgQ, h.notes[1])
        /\ IF h.continue
           THEN /\ s2c' = [s2c EXCEPT ![CC] = r.rest]
                /\ UNCHANGED <<loop, csock>>
           ELSE /\ loop' = "stopped"
                /\ DropChannel
  /\ UNCHANGED <<hstate, c2s, c2sHist, hlog, clock, writes, listener>>
  /\ UNCHANGED <<main, userQ, ui, messages, shutdown_tx, shutdown_rx, sdlog, typed, handled, lagged>>

\* select! takes the recv_user_message branch: handle_user_message. The pending
\* receive_event future is dropped with its buffer.
LoopUserMessage ==
  /\ loop = "running"
  /\ userQ # <<>>
  /\ ~lagged
  /\ CanUISend
  /\ LET message == Head(userQ)
         req == UserRequest(message)
     IN /\ userQ' = Tail(userQ)
        /\ handled' = Append(handled, message)
        /\ partial' = <<>>
        /\ \/ /\ req.kind = "quit"
              /\ msgQ' = UISend(msgQ, <<"Shutting down...">>)
              /\ loop' = "stopped"
              /\ DropChannel
              /\ UNCHANGED <<c2s, c2sHist, clock>>
           \/ /\ req.kind = "unknown"
              /\ msgQ' = UISend(msgQ, <<"Unknown command: /">> \o req.arg)
              /\ UNCHANGED <<loop, csock, s2c, c2s, c2sHist, clock>>
           \/ /\ req.kind \in {"join", "leave", "message"}
              /\ \E now \in (IF req.kind = "message" THEN Now ELSE {clock}),
                    wrote \in WriteOutcomes(CC) :
                   /\ clock' = now
                   /\ IF wrote = "ok"
                      THEN /\ WriteAll(CC, SendBytes(SendCommandBytes(RequestCommand(req, now))))
                           /\ msgQ' = msgQ
                      ELSE /\ UNCHANGED <<c2s, c2sHist>>
                           /\ msgQ' = UISend(msgQ, SendFailureNote(req,
                                        Err("Network", "failed to send bytes")))
              /\ UNCHANGED <<loop, csock, s2c>>
  /\ UNCHANGED <<hstate, hlog, crecv, writes, listener>>
  /\ UNCHANGED <<main, ui, messages, shutdown_tx, shutdown_rx, sdlog, typed, lagged>>

\* select! takes the recv_user_message branch and recv returns Err: the receiver
\* has lagged behind the UI's sends. The loop logs the error and breaks.
LoopUserRecvError ==
  /\ loop = "running"
  /\ lagged
  /\ lagged' = FALSE
  /\ partial' = <<>>
  /\ loop' = "stopped"
  /\ DropChannel
  /\ UNCHANGED <<hstate, c2s, c2sHist, hlog, crecv, clock, writes, listener>>
  /\ UNCHANGED <<main, userQ, msgQ, ui, messages, shutdown_tx, shutdown_rx, sdlog, typed,
                 handled>>

\* --------------------------------------------------- the client's remote end
\* The process at the other end of the client's connection need not be this
\* server: it writes response frames, or bytes that are no frame, and closes.
\* Each write arrives whole.
RemoteChunks ==
  { Append(EncodeValue(Error(<<"e">>)), LF),
    Append(EncodeValue(Joined(<<"u">>)), LF),
    Append(EncodeValue(Left(<<"u">>)), LF),
    <<"x", LF>> }

\* The line the user enters while the client talks to this remote end.
RemoteLines == { <<"hi">> }

RemoteWrite(chunk) ==
  /\ csock[CC] = "open"
  /\ hstate[CC] = "pending"
  /\ writes < MaxPeerWrites
  /\ writes' = writes + 1
  /\ s2c' = [s2c EXCEPT ![CC] = @ \o chunk]
  /\ UNCHANGED <<csock, hstate, c2s, c2sHist, hlog, crecv, clock, listener>>

RemoteClose ==
  /\ hstate[CC] = "pending"
  /\ hstate' = [hstate EXCEPT ![CC] = "closed"]
  /\ UNCHANGED <<csock, c2s, s2c, c2sHist, hlog, crecv, clock, writes, listener>>

\* -------------------------------------------------------------------- UI
\* ChatUI::push_message.
PushMessage(ms, message) ==
  LET pushed == Append(ms, message)
  IN IF Len(pushed) > MAX_MESSAGES THEN Tail(pushed) ELSE pushed

UIUnchanged == UNCHANGED <<netvars, main, loop, partial, shutdown_tx, sdlog, handled>>

\* The broadcast channel of the user's lines keeps a bounded number of values
\* (the requested capacity rounded up to a power of two); a send to a full
\* channel overwrites the oldest value, and the receiver that has not read it
\* gets RecvError::Lagged from its next recv.
RECURSIVE PowerOfTwoFrom(_, _)
PowerOfTwoFrom(p, n) == IF p >= n THEN p ELSE PowerOfTwoFrom(2 * p, n)

BroadcastSlots == PowerOfTwoFrom(1, UserQueueCap)

BroadcastFull(q) == Len(q) >= BroadcastSlots

BroadcastSend(q, line) == IF BroadcastFull(q) THEN Append(Tail(q), line) ELSE Append(q, line)

\* KeyCode::Enter with a non-empty input buffer: the line is broadcast. The
\* loop's receiver queues it while the loop task holds it.
UIEnterUpTo(line, max) ==
  /\ ui = "poll"
  /\ typed < max
  /\ typed' = typed + 1
  /\ userQ' = IF loop = "running" THEN BroadcastSend(userQ, line) ELSE userQ
  /\ lagged' = (lagged \/ (loop = "running" /\ BroadcastFull(userQ)))
  /\ ui' = "check"
  /\ UIUnchanged
  /\ UNCHANGED <<msgQ, messages, shutdown_rx>>

UIEnter(line) == UIEnterUpTo(line, MaxLines)

\* event::poll times out, or the key changes the input buffer only.
UIPoll ==
  /\ ui = "poll"
  /\ ui' = "check"
  /\ UIUnchanged
  /\ UNCHANGED <<userQ, msgQ, messages, shutdown_rx, typed, lagged>>

\* Ctrl-C or Esc breaks the loop (a failing draw, poll or read returns as well).
UIQuit ==
  /\ ui = "poll"
  /\ ui' = "exited"
  /\ msgQ' = <<>>
  /\ UIUnchanged
  /\ UNCHANGED <<userQ, messages, shutdown_rx, typed, lagged>>

\* The rest of the iteration: shutdown_rx.try_recv() breaks the loop when the
\* signal has been sent; otherwise message_rx.try_recv() is drained into
\* push_message.
RECURSIVE PushAll(_, _)
PushAll(ms, q) == IF q = <<>> THEN ms ELSE PushAll(PushMessage(ms, Head(q)), Tail(q))

UICheck ==
  /\ ui = "check"
  /\ IF shutdown_rx = "sent"
     THEN ui' = "exited" /\ UNCHANGED messages
     ELSE ui' = "poll" /\ messages' = PushAll(messages, msgQ)
  /\ msgQ' = <<>>
  /\ UIUnchanged
  /\ UNCHANGED <<userQ, shutdown_rx, typed, lagged>>

\* ------------------------------------------------------------ shutdown
\* Faulty variant of TakeSender: the sender is left in place.
TakeSenderKeeps(tx) == tx

\* lock.take(): the Option left behind the mutex.
TakeSender(tx) == "None"

\* UIController::shutdown under the lock: its result.
ShutdownResult(tx, receiverAlive) ==
  IF tx = "Some"
  THEN IF receiverAlive THEN Ok("sent") ELSE Err("Internal", "Failed to send shutdown signal")
  ELSE Err("Internal", "Shutdown signal already sent")

\* Faulty variant of SignalAfter: the signal is not sent.
SignalNotSent(rx, result) == rx

\* tx.send(()): the oneshot channel after a shutdown call with `result`.
SignalAfter(rx, result) == IF result.ok THEN "sent" ELSE rx

\* UIController::shutdown called on the clone `caller`, from the lock to its return.
Shutdown(caller) ==
  LET result == ShutdownResult(shutdown_tx, UIAlive) IN
  /\ shutdown_tx' = TakeSender(shutdown_tx)
  /\ shutdown_rx' = SignalAfter(shutdown_rx, result)
  /\ sdlog' = Append(sdlog, [caller |-> caller, result |-> result])

\* main's select!: the event_loop handle is ready; shutdown().await? and return.
MainLoopEnded ==
  /\ main = "select"
  /\ loop = "stopped"
  /\ Shutdown("main")
  /\ main' = "exit"
  /\ UNCHANGED netvars
  /\ UNCHANGED <<loop, partial, userQ, msgQ, ui, messages, typed, handled, lagged>>

\* main's select!: the ui_handle is ready.
MainUIExited ==
  /\ main = "select"
  /\ ui = "exited"
  /\ main' = "exit"
  /\ UNCHANGED netvars
  /\ UNCHANGED <<loop, partial, userQ, msgQ, ui, messages, shutdown_tx, shutdown_rx,
                 sdlog, typed, handled, lagged>>

\* main has returned: the runtime shuts down and drops the event loop task at
\* the await it is suspended in.
RuntimeDrop ==
  /\ main = "exit"
  /\ loop = "running"
  /\ loop' = "cancelled"
  /\ partial' = <<>>
  /\ userQ' = <<>>
  /\ DropChannel
  /\ UNCHANGED <<hstate, c2s, c2sHist, hlog, crecv, clock, writes, listener>>
  /\ UNCHANGED <<main, msgQ, ui, messages, shutdown_tx, shutdown_rx, sdlog, typed, handled, lagged>>

\* ------------------------------------------------- a channel on a raw stream
\* A connected pair: one end writes bytes to its socket and may close it, the
\* other end is a ChatClientChannel whose receive_event / receive_command are
\* called one after the other.
VARIABLES
  pipe,        \* bytes written, not yet read
  pipeEof,     \* the writing end has closed
  pipeHist,    \* every byte written
  pipeWrites,  \* number of writes
  results,     \* one entry per receive call that returned
  sends        \* one entry per send the writing end made through its channel

chanvars == <<pipe, pipeEof, pipeHist, pipeWrites, results, sends>>

ChanChunks ==
  { <<"x", LF>>,
    <<"x">>,
    Append(EncodeValue(Joined(<<"u">>)), LF),
    EncodeValue(Error(<<"e">>)),
    Append(EncodeValue(Leave(<<"r">>)), LF) }

ReceiveKinds == {"event", "command"}

TagsOf(kind) == IF kind = "event" THEN ResponseTags ELSE CommandTags

ChanWrite(chunk) ==
  /\ ~pipeEof
  /\ pipeWrites < MaxPipeWrites
  /\ pipeWrites' = pipeWrites + 1
  /\ pipe' = pipe \o chunk
  /\ pipeHist' = pipeHist \o chunk
  /\ UNCHANGED <<pipeEof, results, sends>>

ChanClose ==
  /\ ~pipeEof
  /\ pipeEof' = TRUE
  /\ UNCHANGED <<pipe, pipeHist, pipeWrites, results, sends>>

\* receive_event (kind "event") or receive_command (kind "command"), run to
\* completion. The caller stops at the first Network error.
ChanReceive(kind) ==
  /\ FrameReady(pipe, pipeEof)
  /\ \A i \in 1..Len(results) : ~IsNetworkError(results[i].res)
  /\ LET r == ReadUntil(pipe) IN
       /\ pipe' = r.rest
       /\ results' = Append(results,
            [kind |-> kind,
             res |-> IF kind = "event" THEN ReceiveEvent(r.buf) ELSE ReceiveCommand(r.buf),
             delimited |-> HasLF(pipe), closed |-> pipeEof])
  /\ UNCHANGED <<pipeEof, pipeHist, pipeWrites, sends>>

\* The writing end is a ChatClientChannel as well. The buffers its caller
\* hands to send_bytes: empty, without a delimiter, ending with one, with two.
SendBuffers ==
  { <<>>, <<"x">>, <<"x", LF>>, <<"x", LF, LF>> }

\* A string with every character the encoding escapes.
Escaped == <<DQ, "a", LF, BS, "n">>

\* The ChatCommand and ChatResponse values sent.
WireCommands ==
  { SendMessage(Message(<<"client">>, <<>>, 0)),
    SendMessage(Message(Escaped, Escaped, 9)),
    Join(<<>>), Join(Escaped), Leave(Escaped) }

WireResponses ==
  { MessageReceived(Message(<<"client">>, <<>>, 0)),
    MessageReceived(Message(Escaped, Escaped, 9)),
    Joined(<<>>), Joined(Escaped), Left(Escaped), Error(Escaped) }

\* send_bytes(data): write_all of the buffer send_bytes made of data.
ChanSendBytes(data, value) ==
  /\ ~pipeEof
  /\ Len(sends) < MaxSends
  /\ LET wire == SendBytes(data) IN
       /\ pipe' = pipe \o wire
       /\ pipeHist' = pipeHist \o wire
       /\ sends' = Append(sends, [data |-> data, wire |-> wire, value |-> value])
  /\ UNCHANGED <<pipeEof, pipeWrites, results>>

\* serde_json::to_vec(&value) handed to send_bytes, as send_message does.
ChanSendValue(v) == ChanSendBytes(EncodeValue(v), <<v>>)

InitChan ==
  /\ pipe = <<>>
  /\ pipeEof = FALSE
  /\ pipeHist = <<>>
  /\ pipeWrites = 0
  /\ results = <<>>
  /\ sends = <<>>

\* ----------------------------------------- concurrent calls of shutdown()
\* The clones of the UIController (main's and the event loop's) call
\* shutdown() concurrently; the oneshot receiver may be dropped at any time.
VARIABLES
  mutex,   \* "free", or the clone holding the lock of shutdown_tx
  calls    \* [Clones -> number of shutdown() calls the clone has started]

sdvars == <<mutex, calls>>

Clones == {"main", "loop"}

\* self.shutdown_tx.lock(): waits until the mutex is free.
ShutdownLock(k) ==
  /\ mutex = "free"
  /\ calls[k] < MaxCalls
  /\ calls' = [calls EXCEPT ![k] = @ + 1]
  /\ mutex' = k
  /\ UNCHANGED <<shutdown_tx, shutdown_rx, sdlog, ui>>

\* The body of shutdown() under the lock; the guard is dropped on return.
ShutdownBody(k) ==
  /\ mutex = k
  /\ Shutdown(k)
  /\ mutex' = "free"
  /\ UNCHANGED <<calls, ui>>

\* ChatUI is dropped, and its oneshot receiver with it.
ReceiverDropped ==
  /\ UIAlive
  /\ ui' = "exited"
  /\ UNCHANGED <<mutex, calls, shutdown_tx, shutdown_rx, sdlog>>

InitShutdown ==
  /\ mutex = "free"
  /\ calls = [k \in Clones |-> 0]

\* ------------------------------------------------------- specifications
vars == <<netvars, clientvars, chanvars, sdvars>>

InitNet ==
  /\ csock = [c \in Conns |-> "none"]
  /\ hstate = [c \in Conns |-> "none"]
  /\ c2s = [c \in Conns |-> <<>>]
  /\ s2c = [c \in Conns |-> <<>>]
  /\ c2sHist = [c \in Conns |-> <<>>]
  /\ hlog = [c \in Conns |-> <<>>]
  /\ crecv = [c \in Conns |-> <<>>]
  /\ clock = 1
  /\ writes = 0
  /\ listener = "accepting"

InitClient ==
  /\ main = "init"
  /\ loop = "idle"
  /\ partial = <<>>
  /\ userQ = <<>>
  /\ msgQ = <<>>
  /\ ui = "idle"
  /\ messages = <<>>
  /\ shutdown_tx = "Some"
  /\ shutdown_rx = "empty"
  /\ sdlog = <<>>
  /\ typed = 0
  /\ handled = <<>>
  /\ lagged = FALSE

Init == InitNet /\ InitClient /\ InitChan /\ InitShutdown

\* The server and the peers of its connections.
NotClient == UNCHANGED <<clientvars, chanvars, sdvars>>

Next ==
  \/ \E c \in Conns : Connect(c) /\ NotClient
  \/ \E c \in Conns : Accept(c) /\ NotClient
  \/ \E c \in Conns : AcceptError(c) /\ NotClient
  \/ \E c \in Conns : HandlerStep(c) /\ NotClient
  \/ \E c \in Conns : HandlerReadError(c) /\ NotClient
  \/ \E c \in Conns, text \in PeerTexts : PeerSendMessage(c, text) /\ NotClient
  \/ \E c \in Conns, chunk \in RawChunks : PeerWriteRaw(c, chunk) /\ NotClient
  \/ \E c \in Conns : PeerReceive(c) /\ NotClient
  \/ \E c \in Conns : PeerClose(c) /\ NotClient

Spec == Init /\ [][Next]_vars

\* A step of the handler of c: HandlerStep alone appends to the handler's log.
HandlerStepped(c) == Len(hlog'[c]) = Len(hlog[c]) + 1

\* The tokio runtime polls a spawned handler task whenever its read is ready:
\* weak fairness of HandlerStep(c), WF_vars(HandlerStep(c) /\ NotClient), with
\* the action's enabling condition and its steps written out.
ServerFairness ==
  \A c \in Conns : ([]<>~HandlerCanStep(c)) \/ ([]<><<HandlerStepped(c)>>_vars)

FairSpec == Spec /\ ServerFairness

\* The chat client and the server's handler of its connection.
NotHarness == UNCHANGED <<chanvars, sdvars>>

ClientNext ==
  \/ MainStart /\ NotHarness
  \/ MainConnectFails /\ NotHarness
  \/ LoopPollReceive /\ NotHarness
  \/ LoopReceive /\ NotHarness
  \/ LoopUserMessage /\ NotHarness
  \/ \E line \in UserLines : UIEnter(line) /\ NotHarness
  \/ UIPoll /\ NotHarness
  \/ UIQuit /\ NotHarness
  \/ UICheck /\ NotHarness
  \/ MainLoopEnded /\ NotHarness
  \/ MainUIExited /\ NotHarness
  \/ RuntimeDrop /\ NotHarness
  \/ Accept(CC) /\ NotClient
  \/ HandlerStep(CC) /\ NotClient
  \/ HandlerReadError(CC) /\ NotClient

ClientSpec == Init /\ [][ClientNext]_vars

\* The tokio runtime polls main when a handle it selects on is ready, and the
\* UI thread runs its loop: each iteration ends within the poll timeout.
ClientFairness ==
  /\ WF_vars(MainLoopEnded /\ NotHarness)
  /\ WF_vars(MainUIExited /\ NotHarness)
  /\ WF_vars(RuntimeDrop /\ NotHarness)
  /\ WF_vars(UIPoll /\ NotHarness)
  /\ WF_vars(UICheck /\ NotHarness)

FairClientSpec == ClientSpec /\ ClientFairness

\* The chat client against an arbitrary remote end.
RemoteNext ==
  \/ MainStart /\ NotHarness
  \/ LoopReceive /\ NotHarness
  \/ LoopUserMessage /\ NotHarness
  \/ \E line \in RemoteLines : UIEnter(line) /\ NotHarness
  \/ UIPoll /\ NotHarness
  \/ UIQuit /\ NotHarness
  \/ UICheck /\ NotHarness
  \/ MainLoopEnded /\ NotHarness
  \/ MainUIExited /\ NotHarness
  \/ RuntimeDrop /\ NotHarness
  \/ \E chunk \in RemoteChunks : RemoteWrite(chunk) /\ NotClient
  \/ RemoteClose /\ NotClient

RemoteSpec == Init /\ [][RemoteNext]_vars

\* The client receiving the responses the UI renders: the remote end writes
\* MessageReceived, Joined and Left frames and closes; the user types nothing.
RenderChunks ==
  { Append(EncodeValue(MessageReceived(Message(<<"u">>, <<"hi">>, 1))), LF),
    Append(EncodeValue(Joined(<<"u">>)), LF),
    Append(EncodeValue(Left(<<"u">>)), LF) }

RenderNext ==
  \/ MainStart /\ NotHarness
  \/ LoopReceive /\ NotHarness
  \/ UIPoll /\ NotHarness
  \/ UIQuit /\ NotHarness
  \/ UICheck /\ NotHarness
  \/ MainLoopEnded /\ NotHarness
  \/ MainUIExited /\ NotHarness
  \/ RuntimeDrop /\ NotHarness
  \/ \E chunk \in RenderChunks : RemoteWrite(chunk) /\ NotClient
  \/ RemoteClose /\ NotClient

RenderSpec == Init /\ [][RenderNext]_vars

\* The event loop with lines already queued by the UI: the client is
\* connected, its handler is running, the loop and the UI have been spawned and
\* the user has entered the lines of userQ. TAB is a white space character
\* other than the space.
TAB == "\t"

LineSet ==
  { <<"hi">>,
    <<" ", "/", "join">>,
    <<"/", "join", " ", "general">>,
    <<"/", "join", " ", "a", " ", "b">>,
    <<"/", "join", TAB, "general">>,
    <<"/", "leave">>,
    <<"/", "x">>,
    <<"/", "quit">> }

RECURSIVE SeqsUpTo(_, _)
SeqsUpTo(S, n) ==
  IF n = 0 THEN {<<>>}
  ELSE LET shorter == SeqsUpTo(S, n - 1)
       IN shorter \cup {Append(q, x) : q \in shorter, x \in S}

\* The client is connected, its handler is running, and main has spawned the
\* event loop and the UI.
ConnectedInit ==
  /\ csock = [c \in Conns |-> IF c = CC THEN "open" ELSE "none"]
  /\ hstate = [c \in Conns |-> IF c = CC THEN "open" ELSE "none"]
  /\ c2s = [c \in Conns |-> <<>>]
  /\ s2c = [c \in Conns |-> <<>>]
  /\ c2sHist = [c \in Conns |-> <<>>]
  /\ hlog = [c \in Conns |-> <<>>]
  /\ crecv = [c \in Conns |-> <<>>]
  /\ clock = 1
  /\ writes = 0
  /\ listener = "accepting"
  /\ main = "select"
  /\ loop = "running"
  /\ partial = <<>>
  /\ msgQ = <<>>
  /\ ui = "poll"
  /\ messages = <<>>
  /\ shutdown_tx = "Some"
  /\ shutdown_rx = "empty"
  /\ sdlog = <<>>
  /\ handled = <<>>
  /\ lagged = FALSE
  /\ InitChan
  /\ InitShutdown

LineInit ==
  /\ ConnectedInit
  /\ userQ \in SeqsUpTo(LineSet, MaxLines) \ {<<>>}
  /\ typed = Len(userQ)

LineNext ==
  \/ LoopUserMessage /\ NotHarness
  \/ LoopReceive /\ NotHarness
  \/ UIPoll /\ NotHarness
  \/ UIQuit /\ NotHarness
  \/ UICheck /\ NotHarness
  \/ HandlerStep(CC) /\ NotClient
  \/ HandlerReadError(CC) /\ NotClient

LineSpec == LineInit /\ [][LineNext]_vars

\* The user enters lines faster than the event loop takes them: the server is
\* not reading and the loop is slow. The n-th line is "/join n".
BurstLine(n) == <<"/", "join", " ", ToString(n)>>

QueueInit ==
  /\ ConnectedInit
  /\ userQ = <<>>
  /\ typed = 0

QueueNext ==
  \/ UIEnterUpTo(BurstLine(typed + 1), MaxBurst) /\ NotHarness
  \/ UIPoll /\ NotHarness
  \/ UICheck /\ NotHarness
  \/ LoopUserMessage /\ NotHarness
  \/ LoopUserRecvError /\ NotHarness

QueueSpec == QueueInit /\ [][QueueNext]_vars

\* A channel reading what a raw writer wrote.
ChanNext ==
  \/ \E chunk \in ChanChunks : ChanWrite(chunk) /\ UNCHANGED <<netvars, clientvars, sdvars>>
  \/ ChanClose /\ UNCHANGED <<netvars, clientvars, sdvars>>
  \/ \E kind \in ReceiveKinds : ChanReceive(kind) /\ UNCHANGED <<netvars, clientvars, sdvars>>

ChanSpec == Init /\ [][ChanNext]_vars

\* Two channels over one connection: one sends, the other receives.
WireNext ==
  \/ \E data \in SendBuffers :
       ChanSendBytes(data, <<>>) /\ UNCHANGED <<netvars, clientvars, sdvars>>
  \/ \E v \in WireCommands \cup WireResponses :
       ChanSendValue(v) /\ UNCHANGED <<netvars, clientvars, sdvars>>
  \/ ChanClose /\ UNCHANGED <<netvars, clientvars, sdvars>>
  \/ \E kind \in ReceiveKinds : ChanReceive(kind) /\ UNCHANGED <<netvars, clientvars, sdvars>>

WireSpec == Init /\ [][WireNext]_vars

\* Concurrent shutdown() calls.
SdRest ==
  UNCHANGED <<netvars, chanvars, main, loop, partial, userQ, msgQ, messages, typed, handled, lagged>>

ShutdownNext ==
  \/ \E k \in Clones : ShutdownLock(k) /\ SdRest
  \/ \E k \in Clones : ShutdownBody(k) /\ SdRest
  \/ ReceiverDropped /\ SdRest

ShutdownSpec == Init /\ [][ShutdownNext]_vars

\* =================================================================== claims
\* The commands a stream of bytes carries, in order: the frames that decode.
RECURSIVE DecodedOf(_, _)
DecodedOf(frames, tags) ==
  IF frames = <<>> THEN <<>>
  ELSE LET d == Decode(Head(frames), tags)
       IN (IF d.ok THEN <<d.val>> ELSE <<>>) \o DecodedOf(Tail(frames), tags)

CommandsWritten(c) == DecodedOf(Frames(c2sHist[c]), CommandTags)

RECURSIVE MessagesOf(_)
MessagesOf(values) ==
  IF values = <<>> THEN <<>>
  ELSE (IF Head(values).tag \in MessageTags THEN <<Head(values).msg>> ELSE <<>>)
         \o MessagesOf(Tail(values))

\* The commands the handler of c has decoded, in the order it read them.
RECURSIVE LoggedCommands(_)
LoggedCommands(log) ==
  IF log = <<>> THEN <<>>
  ELSE (IF Head(log).cmd.ok THEN <<Head(log).cmd.val>> ELSE <<>>) \o LoggedCommands(Tail(log))

\* The responses receive_event has returned on c, in order.
RECURSIVE ReceivedValues(_)
ReceivedValues(rs) ==
  IF rs = <<>> THEN <<>>
  ELSE (IF Head(rs).ok THEN <<Head(rs).val>> ELSE <<>>) \o ReceivedValues(Tail(rs))

\* C1: on the client's connection the handler processes the commands in the
\* order the client wrote them, and the MessageReceived responses the event
\* loop reads carry the messages of the SendMessage commands in the order they
\* were written.
C1_Ordering ==
  /\ IsPrefix(LoggedCommands(hlog[CC]), CommandsWritten(CC))
  /\ IsPrefix(MessagesOf(ReceivedValues(crecv[CC])), MessagesOf(CommandsWritten(CC)))

\* Two responses to two different commands have been read by the event loop.
C1_Witness ==
  LET ms == MessagesOf(ReceivedValues(crecv[CC]))
  IN Len(ms) >= 2 /\ ms[1] # ms[2]

\* C2: for every frame a handler read, it wrote exactly one response, the
\* MessageReceived carrying the same sender, content and timestamp, when the
\* frame is a SendMessage command, and no response otherwise.
C2_Echo ==
  \A c \in Conns : \A i \in 1..Len(hlog[c]) :
    LET e == hlog[c][i]
        d == DecodeCommand(e.buf)
    IN IF Len(e.buf) > 0 /\ d.ok /\ d.val.tag = "SendMessage"
       THEN /\ Len(e.out) = 1
            /\ e.out[1].tag = "MessageReceived"
            /\ e.out[1].msg.sender = d.val.msg.sender
            /\ e.out[1].msg.content = d.val.msg.content
            /\ e.out[1].msg.timestamp = d.val.msg.timestamp
       ELSE e.out = <<>>

\* A handler has echoed a SendMessage and has read a frame it did not answer.
C2_Witness ==
  \E c \in Conns : \E i, j \in 1..Len(hlog[c]) :
    /\ hlog[c][i].out # <<>> /\ hlog[c][i].wrote = "ok"
    /\ hlog[c][j].out = <<>> /\ Len(hlog[c][j].buf) > 0

\* The responses received on c and in flight to c answer SendMessage commands
\* written on c.
OwnResponsesOnly ==
  \A c \in Conns :
    LET own == MessagesOf(CommandsWritten(c))
        got == ReceivedValues(crecv[c]) \o DecodedOf(Frames(s2c[c]), ResponseTags)
    IN /\ \A i \in 1..Len(got) :
            /\ got[i].tag = "MessageReceived"
            /\ \E j \in 1..Len(own) : own[j] = got[i].msg
       /\ Len(DecodedOf(Frames(s2c[c]), ResponseTags)) = Len(Frames(s2c[c]))

\* A step that is neither of the handler of c nor of the client end of c.
ForeignStep(c) ==
  /\ hlog'[c] = hlog[c]
  /\ hstate'[c] = hstate[c]
  /\ crecv'[c] = crecv[c]
  /\ csock'[c] = csock[c]
  /\ c2sHist'[c] = c2sHist[c]

\* C3: every response a client end has received, and every response in flight
\* to it, answers a SendMessage command written on the same connection, and
\* the streams of a connection change only in the steps of its own handler and
\* of its own client end.
C3_Isolation ==
  /\ []OwnResponsesOnly
  /\ [][\A c \in Conns : ForeignStep(c) => (s2c'[c] = s2c[c] /\ c2s'[c] = c2s[c])]_vars

\* Both connections have received the echo of their own, different message.
C3_Witness ==
  /\ \A c \in Conns : ReceivedValues(crecv[c]) # <<>>
  /\ ReceivedValues(crecv["a"])[1] # ReceivedValues(crecv["b"])[1]

\* C4: a handler that has read a frame that does not decode as a Command has
\* terminated: the malformed frame is the last frame it read.
C4_MalformedIsFatal ==
  \A c \in Conns : \A i \in 1..Len(hlog[c]) :
    (Len(hlog[c][i].buf) > 0 /\ ~hlog[c][i].cmd.ok)
      => (i = Len(hlog[c]) /\ hstate[c] # "open")

\* C5: for every Join or Leave command a handler has read, it wrote a response.
C5_JoinLeaveAnswered ==
  \A c \in Conns : \A i \in 1..Len(hlog[c]) :
    LET e == hlog[c][i] IN
    (Len(e.buf) > 0 /\ e.cmd.ok /\ e.cmd.val.tag \in {"Join", "Leave"}) => e.out # <<>>

\* C6: a receive that runs into the end of the stream (the writer has closed
\* and no delimiter is left to read) returns the Network error.
C6_ClosedIsNetworkError ==
  \A i \in 1..Len(results) :
    (results[i].closed /\ ~results[i].delimited) => IsNetworkError(results[i].res)

\* C7: the i-th receive returns what the i-th delimited frame of the stream
\* decodes to, a Protocol error when it does not decode: a malformed frame
\* costs one error and leaves the frames after it intact and in order.
C7_OneErrorPerBadFrame ==
  LET frames == Frames(pipeHist) IN
  \A i \in 1..Len(results) :
    results[i].delimited =>
      /\ i <= Len(frames)
      /\ LET d == Decode(frames[i], TagsOf(results[i].kind)) IN
           IF d.ok THEN results[i].res.ok /\ results[i].res.val = d.val
           ELSE IsProtocolError(results[i].res)

\* A non-JSON line was answered by a Protocol error and the valid line after it
\* by its value.
C7_Witness ==
  \E i \in 1..Len(results) :
    /\ i < Len(results)
    /\ Frames(pipeHist)[i] = <<"x", LF>>
    /\ IsProtocolError(results[i].res)
    /\ results[i + 1].delimited
    /\ results[i + 1].res.ok

\* C8: at most one shutdown() call succeeds, every call after a successful one
\* returns an error, and a call holding the lock can always finish.
C8_OneShot ==
  /\ \A i, j \in 1..Len(sdlog) : (i < j /\ sdlog[i].result.ok) => ~sdlog[j].result.ok
  /\ Cardinality({i \in 1..Len(sdlog) : sdlog[i].result.ok}) <= 1
  /\ mutex # "free" => ENABLED (ShutdownBody(mutex) /\ SdRest)

\* One clone's call succeeded and the other clone's later call failed.
C8_Witness ==
  \E i, j \in 1..Len(sdlog) :
    /\ i < j
    /\ sdlog[i].result.ok
    /\ ~sdlog[j].result.ok
    /\ sdlog[i].caller # sdlog[j].caller

\* C9: once the event loop has terminated the UI loop eventually exits, main
\* has returned from the loop's end only with the UI stopped or signalled, and
\* once the UI loop has exited the event loop eventually stops running.
C9_LoopEndStopsUI ==
  /\ (loop = "stopped") ~> (ui = "exited")
  /\ (ui = "exited") ~> (loop # "running")
  /\ []((main = "exit" /\ loop = "stopped") => (ui = "exited" \/ shutdown_rx = "sent"))

\* The loop ended on /quit, main signalled, and the UI exited on the signal.
C9_Witness ==
  /\ loop = "stopped"
  /\ ui = "exited"
  /\ shutdown_rx = "sent"
  /\ handled # <<>> /\ handled[Len(handled)] = <<"/", "quit">>

\* A shutdown request has been issued: the UI loop has stopped or the shutdown
\* signal has been sent.
ShutdownRequested == ui = "exited" \/ shutdown_rx = "sent"

\* C10: once a shutdown request is issued (the UI has stopped, or the shutdown
\* signal has been sent) the event loop handles no inbound response and no user
\* line.
C10_ShutdownStopsLoop ==
  [][ShutdownRequested => (crecv' = crecv /\ handled' = handled)]_vars

\* The number of delimiter bytes a buffer ends with.
RECURSIVE TrailingLFs(_)
TrailingLFs(bytes) ==
  IF bytes = <<>> \/ bytes[Len(bytes)] # LF THEN 0
  ELSE 1 + TrailingLFs(Take(bytes, Len(bytes) - 1))

\* C11: the bytes every send_bytes call wrote, and the bytes of every response
\* a handler wrote, end with exactly one delimiter byte.
C11_OneDelimiter ==
  /\ \A i \in 1..Len(sends) : TrailingLFs(sends[i].wire) = 1
  /\ \A c \in Conns : \A i \in 1..Len(hlog[c]) :
       hlog[c][i].out # <<>> => TrailingLFs(ResponseBytes(hlog[c][i].out[1])) = 1

\* The step in which the handler of c ends, panics or is refused changes
\* nothing of another connection.
OthersUntouched ==
  \A c \in Conns :
    (~ServerClosed(c) /\ ServerClosed(c)') =>
      \A d \in Conns \ {c} :
        /\ hstate'[d] = hstate[d]
        /\ hlog'[d] = hlog[d]
        /\ c2s'[d] = c2s[d]
        /\ s2c'[d] = s2c[d]

\* A handler that reads a SendMessage command while the handler of another
\* connection is gone echoes it to its own client and stays open.
EchoBesideFault ==
  \A d \in Conns :
    ( /\ \E c \in Conns \ {d} : ServerClosed(c)
      /\ ~ClientClosed(d)
      /\ Len(hlog'[d]) = Len(hlog[d]) + 1 ) =>
      LET e == hlog'[d][Len(hlog'[d])] IN
      (e.cmd.ok /\ e.cmd.val.tag = "SendMessage") =>
        /\ s2c'[d] = s2c[d] \o ResponseBytes(MessageReceived(e.cmd.val.msg))
        /\ hstate'[d] = "open"

\* C12: a handler that ends, panics on a failed write or is never spawned
\* because accept failed leaves every other connection as it was: the accept
\* loop goes on accepting, and the other handlers still read and echo.
C12_FaultIsolation ==
  /\ [](listener = "accepting")
  /\ [][OthersUntouched /\ EchoBesideFault]_vars

\* One handler has panicked while the open handler of the other connection has
\* a SendMessage command to read.
C12_Witness ==
  \E c, d \in Conns :
    /\ hstate[c] = "panicked"
    /\ listener = "accepting"
    /\ hstate[d] = "open"
    /\ ~ClientClosed(d)
    /\ HasLF(c2s[d])
    /\ DecodeCommand(ReadUntil(c2s[d]).buf).ok

\* A receive result that ends the event loop: a failure, or Error(reason).
Fatal(result) == IF result.ok THEN result.val.tag = "Error" ELSE TRUE

\* The fatal result is the last the loop received, and the loop is over.
FatalIsLast ==
  \A i \in 1..Len(crecv[CC]) :
    Fatal(crecv[CC][i]) => (i = Len(crecv[CC]) /\ loop # "running")

\* After a fatal result the loop handles no response and no user line.
NothingAfterFatal ==
  (\E i \in 1..Len(crecv[CC]) : Fatal(crecv[CC][i])) =>
    (crecv' = crecv /\ handled' = handled)

\* The step that receives a failure.
ReceiveFails ==
  /\ Len(crecv'[CC]) = Len(crecv[CC]) + 1
  /\ ~crecv'[CC][Len(crecv'[CC])].ok

ConnectionErrorNote ==
  <<"Connection error: ", Display(crecv'[CC][Len(crecv'[CC])])>>

\* C13 as stated: Error(reason) and every receive failure end the loop, which
\* then handles nothing more, and every receive failure enqueues one
\* 'Connection error' notification.
C13_FatalReceive ==
  /\ []FatalIsLast
  /\ [][NothingAfterFatal]_vars
  /\ [][ReceiveFails => msgQ' = Append(msgQ, ConnectionErrorNote)]_vars

\* C13 amended: the notification is best effort; it is enqueued when the UI's
\* receiver is still alive, and dropped when the UI has already exited.
C13_FatalReceiveBestEffort ==
  /\ []FatalIsLast
  /\ [][NothingAfterFatal]_vars
  /\ [][ReceiveFails =>
          msgQ' = IF UIAlive THEN Append(msgQ, ConnectionErrorNote) ELSE msgQ]_vars

\* The loop ended on a receive failure with a user line still queued, and the
\* notification is in the UI's queue.
C13_Witness ==
  /\ loop = "stopped"
  /\ crecv[CC] # <<>>
  /\ ~crecv[CC][Len(crecv[CC])].ok
  /\ userQ # <<>>
  /\ msgQ # <<>>
  /\ msgQ[Len(msgQ)][1] = "Connection error: "

\* The step in which the event loop handles a user line, and the line.
HandlesLine == Len(handled') = Len(handled) + 1

HandledLine == handled'[Len(handled')]

\* The sub-command of a line that begins with the prefix: its tokens up to the
\* first space.
RECURSIVE FirstWord(_)
FirstWord(chars) ==
  IF chars = <<>> \/ Head(chars) = " " THEN <<>>
  ELSE <<Head(chars)>> \o FirstWord(Tail(chars))

IsSubCommand(line, name) == line # <<>> /\ Head(line) = "/" /\ FirstWord(Tail(line)) = name

IsQuit(line) == IsSubCommand(line, <<"quit">>)

IsSend(line) ==
  \/ line = <<>>
  \/ Head(line) # "/"
  \/ IsSubCommand(line, <<"join">>)
  \/ IsSubCommand(line, <<"leave">>)

FailureNotes == {"Error sending message: ", "Error joining: ", "Error leaving: "}

\* What handling a line does to the loop and to the UI's queue; `alive` says
\* whether the notice reaches the queue.
LineOutcome(alive) ==
  HandlesLine =>
    /\ loop' = (IF IsQuit(HandledLine) THEN "stopped" ELSE "running")
    /\ (IsSend(HandledLine) /\ c2sHist'[CC] # c2sHist[CC]) => msgQ' = msgQ
    /\ (IsSend(HandledLine) /\ c2sHist'[CC] = c2sHist[CC]) =>
         IF alive
         THEN Len(msgQ') = Len(msgQ) + 1 /\ Take(msgQ', Len(msgQ)) = msgQ
                /\ msgQ'[Len(msgQ')][1] \in FailureNotes
         ELSE msgQ' = msgQ
    /\ (~IsSend(HandledLine) /\ ~IsQuit(HandledLine)) =>
         IF alive
         THEN msgQ' = Append(msgQ, <<"Unknown command: /">> \o FirstWord(Tail(HandledLine)))
         ELSE msgQ' = msgQ

WhiteSpace == {" ", TAB}

\* The first white-space-delimited token of a string, and what follows the
\* delimiter that ends it.
RECURSIVE FirstToken(_)
FirstToken(chars) ==
  IF chars = <<>> \/ Head(chars) \in WhiteSpace THEN <<>>
  ELSE <<Head(chars)>> \o FirstToken(Tail(chars))

Remainder(chars) == Drop(chars, Len(FirstToken(chars)) + 1)

\* The command the loop wrote to its connection in this step, if it wrote one.
CommandSent == DecodeCommand(Drop(c2sHist'[CC], Len(c2sHist[CC])))

NothingSent == c2sHist'[CC] = c2sHist[CC]

\* C15: a handled line that begins with '/' is the sub-command named by its
\* first white-space-delimited token, with the remainder as its one argument:
\* join and leave send Join(argument) and Leave(argument) (or fail to send to a
\* closed connection), quit stops the loop, any other name sends nothing; a
\* line that does not begin with '/' is sent as the content of a SendMessage.
C15_CommandParsing ==
  [][HandlesLine =>
      IF HandledLine # <<>> /\ Head(HandledLine) = "/"
      THEN LET name == FirstToken(Tail(HandledLine))
               argument == Remainder(Tail(HandledLine))
           IN /\ name = <<"join">> =>
                   \/ ServerClosed(CC) /\ NothingSent
                   \/ CommandSent.ok /\ CommandSent.val = Join(argument)
              /\ name = <<"leave">> =>
                   \/ ServerClosed(CC) /\ NothingSent
                   \/ CommandSent.ok /\ CommandSent.val = Leave(argument)
              /\ name = <<"quit">> => (loop' = "stopped" /\ NothingSent)
              /\ name \notin {<<"join">>, <<"leave">>, <<"quit">>} =>
                   (loop' = "running" /\ NothingSent)
      ELSE \/ ServerClosed(CC) /\ NothingSent
           \/ /\ CommandSent.ok
              /\ CommandSent.val.tag = "SendMessage"
              /\ CommandSent.val.msg.content = HandledLine]_vars

\* The first n sends were sends of values.
ValuesOnly(n) == n <= Len(sends) /\ \A j \in 1..n : sends[j].value # <<>>

\* C16: the receive of the frame of an encoded Command or Response returns the
\* value that was encoded when it decodes as the value's own type, and a
\* Protocol error when it decodes as the other type.
C16_RoundTrip ==
  \A i \in 1..Len(results) :
    ValuesOnly(i) =>
      LET v == sends[i].value[1] IN
      IF v.tag \in TagsOf(results[i].kind)
      THEN results[i].res = Ok(v)
      ELSE IsProtocolError(results[i].res)

\* A SendMessage whose strings need every escape came back as sent, and a
\* Response frame received as a Command was refused.
C16_Witness ==
  /\ ValuesOnly(Len(results))
  /\ \E i \in 1..Len(results) :
       /\ results[i].res.ok
       /\ results[i].res.val = SendMessage(Message(Escaped, Escaped, 9))
  /\ \E j \in 1..Len(results) :
       /\ sends[j].value[1].tag \in ResponseTags
       /\ results[j].kind = "command"
       /\ IsProtocolError(results[j].res)

\* The responses the handler of c has written, in order.
RECURSIVE ResponsesWritten(_)
ResponsesWritten(log) ==
  IF log = <<>> THEN <<>>
  ELSE (IF Head(log).wrote = "ok" THEN Head(log).out ELSE <<>>) \o ResponsesWritten(Tail(log))

\* C17: the event loop receives the responses the handler wrote, each once,
\* intact and in order: no receive_event returns a Protocol error, however the
\* arrival of a frame's bytes interleaves with the user's lines.
C17_NoFrameLost ==
  /\ \A i \in 1..Len(crecv[CC]) : ~IsProtocolError(crecv[CC][i])
  /\ IsPrefix(ReceivedValues(crecv[CC]), ResponsesWritten(hlog[CC]))

\* The lines the user has entered, in order.
LinesEntered == [i \in 1..typed |-> BurstLine(i)]

\* C18: the event loop keeps running, and the lines it has handled followed by
\* the lines still queued for it are the lines the user has entered, in order:
\* none is dropped, repeated or reordered, however many are queued.
C18_NoLineLost ==
  /\ loop = "running"
  /\ handled \o userQ = LinesEntered

\* The step in which the loop receives a MessageReceived, Joined or Left
\* response, and the content of the render event made of it.
Renders(result) == result.ok /\ result.val.tag \in {"MessageReceived", "Joined", "Left"}

ReceivesRender ==
  /\ Len(crecv'[CC]) = Len(crecv[CC]) + 1
  /\ Renders(crecv'[CC][Len(crecv'[CC])])

RenderContent(v) ==
  IF v.tag = "MessageReceived" THEN v.msg.content
  ELSE IF v.tag = "Joined" THEN <<"User ">> \o v.arg \o <<" joined the chat">>
  ELSE <<"User ">> \o v.arg \o <<" left the chat">>

RenderReceived == RenderContent(crecv'[CC][Len(crecv'[CC])].val)

\* The UIMessage contents due for the results received, in the order received.
RECURSIVE NotesDue(_)
NotesDue(rs) ==
  IF rs = <<>> THEN <<>>
  ELSE LET r == Head(rs) IN
       (IF ~r.ok THEN << <<"Connection error: ", Display(r)>> >>
        ELSE IF Renders(r) THEN <<RenderContent(r.val)>>
        ELSE <<>>) \o NotesDue(Tail(rs))

IsSuffix(s, t) == Len(s) <= Len(t) /\ s = Drop(t, Len(t) - Len(s))

\* While the UI runs, its message list followed by its queue is the tail of
\* the events due, in the order the responses were received.
RenderedInOrder == UIAlive => IsSuffix(messages \o msgQ, NotesDue(crecv[CC]))

C20_DelimitedOnly ==
  \A i \in 1..Len(results) : results[i].res.ok => results[i].delimited

\* The handler task of connection c is over: it left its loop, or never ran.
Closed(c) == ServerClosed(c)

\* A closed handler stays as it is: it reads no command (its log is as it was),
\* writes no response (the bytes in flight to the client only shrink), and is
\* not reopened.
ClosedIsAbsorbing ==
  \A c \in Conns :
    Closed(c) =>
      /\ hstate'[c] = hstate[c]
      /\ hlog'[c] = hlog[c]
      /\ IsSuffix(s2c'[c], s2c[c])

\* The handler leaves Open only for Closed, and a handler that has read zero
\* bytes is closed.
OpenThenClosed ==
  \A c \in Conns :
    /\ (hstate[c] = "open" /\ hstate'[c] # "open") => Closed(c)'
    /\ (Len(hlog'[c]) = Len(hlog[c]) + 1 /\ Len(hlog'[c][Len(hlog'[c])].buf) = 0)
         => hstate'[c] = "closed"

\* C21: the handler goes from Open to Closed only; once the peer has closed
\* the connection the handler eventually is Closed; and Closed is absorbing.
C21_HandlerLifecycle ==
  /\ [][OpenThenClosed /\ ClosedIsAbsorbing]_vars
  /\ \A c \in Conns : (hstate[c] = "open" /\ ClientClosed(c)) ~> Closed(c)

\* The handler echoed a message, read zero bytes after the peer closed, and is
\* closed with the echo still in flight.
C21_Witness ==
  \E c \in Conns :
    /\ hstate[c] = "closed"
    /\ ClientClosed(c)
    /\ Len(hlog[c]) >= 2
    /\ hlog[c][1].out # <<>>
    /\ Len(hlog[c][Len(hlog[c])].buf) = 0

\* The step in which the UI loop exits on the shutdown signal.
ExitsOnSignal == ui = "check" /\ shutdown_rx = "sent" /\ ui' = "exited"

\* C22: when the UI loop exits on the shutdown signal, no render event enqueued
\* before the signal is left in its queue: each has been appended to the UI's
\* message list.
C22_DrainedBeforeExit ==
  [][ExitsOnSignal => msgQ = <<>>]_vars
====
